---- MODULE Spec2Model ----
(***************************************************************************)
(* Model of the two command-line tools of DSA_OccluNet:                    *)
(*   KeyAssigner   (src/add_study_key.py)  assigns one Study_Key per        *)
(*                 accession and writes the spreadsheet back;               *)
(*   FileValidator (src/check_files.py)    checks that the image files a    *)
(*                 spreadsheet names exist under base_dir/accession.        *)
(* Text is a sequence of one-character strings, so that strip(), lower()   *)
(* and endswith() are computed and not assumed.  A cell is a record        *)
(* [kind, text]: kind "nan" is the float NaN pandas gives a blank cell,    *)
(* "none" is Python's None (row.get of an absent column), "int" is a       *)
(* whole number whose text is its decimal form, "text" is a string and     *)
(* "blank" is an empty cell of the persisted spreadsheet.                  *)
(***************************************************************************)
EXTENDS Integers, Sequences, FiniteSets, TLC

VARIABLES
    tool,              \* which script runs: "KeyAssigner" or "FileValidator"
    pc,                \* position in main()
    run,               \* KeyAssigner invocation number (1, then the rerun)
    excel,             \* the persisted spreadsheet: [exists, columns, rows]
    excel0,            \* history: the spreadsheet before the first run
    excel1,            \* history: the spreadsheet and uuid count after run 1
    df,                \* the loaded table: [columns, rows]
    accession_to_key,  \* KeyAssigner's dict, a function on normalized accessions
    i,                 \* row cursor of the current loop (0: no loop entered)
    uuid_count,        \* number of uuid4() identifiers generated so far
    writes,            \* number of files written (to_excel / to_csv calls)
    stdout,            \* lines printed, in order
    result,            \* "none", "return0", "return1", "FileNotFoundError", "KeyError"
    fs,                \* FileValidator: [exists, files] of base_dir
    j,                 \* FileValidator: column cursor within the current row
    out_row,           \* FileValidator: the output row being built
    out_rows,          \* FileValidator: output rows appended so far
    csv,               \* FileValidator: the output CSV: [written, rows]
    error_count,       \* FileValidator: missing-file counter
    checked_count      \* FileValidator: checked-entries counter

vars == <<tool, pc, run, excel, excel0, excel1, df, accession_to_key, i, uuid_count,
          writes, stdout, result, fs, j, out_row, out_rows, csv, error_count,
          checked_count>>

fvVars == <<fs, j, out_row, out_rows, csv, error_count, checked_count>>

(***************************************************************************)
(* Bounds of the model.                                                    *)
(***************************************************************************)
MaxRows == 2

(***************************************************************************)
(* Text and cells.                                                         *)
(***************************************************************************)
Whitespace == {" ", "\t", "\n"}

UpperLetters == <<"A", "B", "C", "D", "I", "K", "M", "N", "G", "X">>
LowerLetters == <<"a", "b", "c", "d", "i", "k", "m", "n", "g", "x">>

LowerChar(c) ==
    IF \E k \in 1..Len(UpperLetters) : UpperLetters[k] = c
    THEN LowerLetters[CHOOSE k \in 1..Len(UpperLetters) : UpperLetters[k] = c]
    ELSE c

\* str.lower()
Lower(s) == [k \in 1..Len(s) |-> LowerChar(s[k])]

\* str.lstrip() and str.rstrip(): drop leading, trailing whitespace
RECURSIVE LStrip(_)
LStrip(s) == IF s # <<>> /\ Head(s) \in Whitespace THEN LStrip(Tail(s)) ELSE s

RECURSIVE RStrip(_)
RStrip(s) ==
    IF s # <<>> /\ s[Len(s)] \in Whitespace THEN RStrip(SubSeq(s, 1, Len(s) - 1)) ELSE s

\* str.strip()
Strip(s) == RStrip(LStrip(s))

\* str.endswith(suffix)
EndsWith(s, suffix) ==
    /\ Len(s) >= Len(suffix)
    /\ SubSeq(s, Len(s) - Len(suffix) + 1, Len(s)) = suffix

DotDcm == <<".", "d", "c", "m">>
NanText == <<"n", "a", "n">>

Text(s) == [kind |-> "text", text |-> s]
IntCell(s) == [kind |-> "int", text |-> s]
NaN == [kind |-> "nan", text |-> <<>>]
None == [kind |-> "none", text |-> <<>>]
Blank == [kind |-> "blank", text |-> <<>>]

\* lines 8-14 of both scripts
normalize_value(value) ==
    IF value.kind \in {"none", "nan"} THEN <<>>
    ELSE LET text == Strip(value.text)
         IN  IF Lower(text) = NanText THEN <<>> ELSE text

\* one printed line: what it says, and for an ERROR line the accession, column
\* and display name it names and the row that caused it
Line(what, accession, column, name, row) ==
    [line |-> what, accession |-> accession, column |-> column, name |-> name,
     row |-> row]

\* row.get(column): None when the table has no such column
RowGet(row, column) == IF column \in DOMAIN row THEN row[column] ELSE None

(***************************************************************************)
(* The spreadsheet file.  read_excel gives NaN for an empty cell and the   *)
(* stored number or string otherwise; to_excel stores NaN, None and the    *)
(* empty string as an empty cell.                                          *)
(***************************************************************************)
ReadCell(c) == IF c.kind = "blank" THEN NaN ELSE c
WriteCell(c) == IF c.kind \in {"nan", "none"} \/ c.text = <<>> THEN Blank ELSE c

read_excel(file) ==
    [columns |-> file.columns,
     rows |-> [r \in 1..Len(file.rows) |->
                  [c \in file.columns |-> ReadCell(file.rows[r][c])]]]

to_excel(table) ==
    [exists |-> TRUE,
     columns |-> table.columns,
     rows |-> [r \in 1..Len(table.rows) |->
                  [c \in table.columns |-> WriteCell(table.rows[r][c])]]]

NoFile == [exists |-> FALSE, columns |-> {}, rows |-> <<>>]
NoTable == [columns |-> {}, rows |-> <<>>]
EmptyMap == [a \in {} |-> <<>>]

(***************************************************************************)
(* KeyAssigner, src/add_study_key.py                                       *)
(***************************************************************************)
key_col == "Study_Key"

\* str(uuid.uuid4()): the n-th identifier generated; no two are equal
Digits == <<"1", "2", "3", "4", "5", "6", "7", "8", "9">>
uuid4(n) == <<"u", "u", "i", "d", "-", Digits[n]>>

AccessionCells ==
    {Blank, Text(<<" ">>), Text(<<" ", "N", "a", "n">>),
     Text(<<"A", "1">>), Text(<<"A", "1", " ">>), Text(<<"B", "2">>)}

KeyCells ==
    {Blank, Text(<<"N", "A", "N">>), Text(<<"K", "1">>), Text(<<" ", "K", "1">>),
     Text(<<"K", "2">>), IntCell(<<"7">>)}

KeyAssignerColumnSets ==
    {{"Accession", key_col}, {"Accession"}, {key_col}}

\* the rows a spreadsheet with the columns `cols` can hold
KeyAssignerRows(cols) ==
    {[c \in cols |-> IF c = "Accession" THEN p[1] ELSE p[2]] :
        p \in AccessionCells \X KeyCells}

\* lines 42-43: create the key column, filled with the empty string, when absent
EnsureKeyColumn(table) ==
    IF key_col \in table.columns THEN table
    ELSE [columns |-> table.columns \cup {key_col},
          rows |-> [r \in 1..Len(table.rows) |->
                       [c \in table.columns \cup {key_col} |->
                           IF c = key_col THEN Text(<<>>) ELSE table.rows[r][c]]]]

\* dict.setdefault(accession, key) replaced by a plain assignment: a faulty variant
setdefault_overwrite(map, accession, key) ==
    [a \in DOMAIN map \cup {accession} |-> IF a = accession THEN key ELSE map[a]]

\* dict.setdefault(accession, key): an accession already in the map keeps its key
setdefault(map, accession, key) ==
    IF accession \in DOMAIN map THEN map
    ELSE [a \in DOMAIN map \cup {accession} |-> IF a = accession THEN key ELSE map[a]]

\* the rows of both passes are skipped never: a faulty variant
SkipRow_never(row) == FALSE

\* lines 48-50 and 57-59: `if not accession: continue`
SkipRow(row) == normalize_value(RowGet(row, "Accession")) = <<>>

\* pass 1 that harvests nothing: a faulty variant
HarvestRow_nothing(map, row) == map

\* lines 47-53: one iteration of pass 1 (harvest)
HarvestRow(map, row) ==
    IF SkipRow(row) THEN map
    ELSE LET accession == normalize_value(RowGet(row, "Accession"))
             existing_key == normalize_value(RowGet(row, key_col))
         IN  IF existing_key # <<>> THEN setdefault(map, accession, existing_key)
             ELSE map

\* pass 2 that generates an identifier for every row it visits: a faulty variant
GeneratesUuid_always(map, row) == ~SkipRow(row)

\* line 60: does this row make pass 2 generate an identifier?
GeneratesUuid(map, row) ==
    /\ ~SkipRow(row)
    /\ normalize_value(RowGet(row, "Accession")) \notin DOMAIN map

\* lines 60-61: the map after one iteration of pass 2 (n identifiers generated before)
BackfillMap(map, row, n) ==
    IF GeneratesUuid(map, row)
    THEN LET accession == normalize_value(RowGet(row, "Accession"))
         IN  [a \in DOMAIN map \cup {accession} |->
                 IF a = accession THEN uuid4(n + 1) ELSE map[a]]
    ELSE map

\* pass 2 that fills only the rows without a key of their own: a faulty variant
BackfillRow_missing_only(map, row) ==
    IF SkipRow(row) \/ normalize_value(RowGet(row, key_col)) # <<>> THEN row
    ELSE [row EXCEPT ![key_col] =
             Text(map[normalize_value(RowGet(row, "Accession"))])]

\* line 62: df.at[idx, key_col] = accession_to_key[accession]
BackfillRow(map, row) ==
    IF SkipRow(row) THEN row
    ELSE [row EXCEPT ![key_col] =
             Text(map[normalize_value(RowGet(row, "Accession"))])]

KeyAssignerInit ==
    /\ tool = "KeyAssigner"
    /\ pc = "start"
    /\ run = 1
    /\ \/ excel = NoFile
       \/ \E cols \in KeyAssignerColumnSets, n \in 0..MaxRows :
             \E rows \in [1..n -> KeyAssignerRows(cols)] :
                excel = [exists |-> TRUE, columns |-> cols, rows |-> rows]
    /\ excel0 = excel
    /\ excel1 = [file |-> NoFile, uuids |-> 0]
    /\ df = NoTable
    /\ accession_to_key = EmptyMap
    /\ i = 0
    /\ uuid_count = 0
    /\ writes = 0
    /\ stdout = <<>>
    /\ result = "none"
    /\ fs = [exists |-> FALSE, files |-> {}]
    /\ j = 0
    /\ out_row = EmptyMap
    /\ out_rows = <<>>
    /\ csv = [written |-> FALSE, rows |-> <<>>]
    /\ error_count = 0
    /\ checked_count = 0

\* lines 33-35: the spreadsheet is not there
KA_ExcelNotFound ==
    /\ tool = "KeyAssigner" /\ pc = "start"
    /\ ~excel.exists
    /\ pc' = "failed"
    /\ result' = "FileNotFoundError"
    /\ UNCHANGED <<tool, run, excel, excel0, excel1, df, accession_to_key, i,
                   uuid_count, writes, stdout>>
    /\ UNCHANGED fvVars

\* lines 37-39: the loaded table has no Accession column
KA_MissingColumn ==
    /\ tool = "KeyAssigner" /\ pc = "start"
    /\ excel.exists
    /\ "Accession" \notin read_excel(excel).columns
    /\ df' = read_excel(excel)
    /\ pc' = "failed"
    /\ result' = "KeyError"
    /\ UNCHANGED <<tool, run, excel, excel0, excel1, accession_to_key, i,
                   uuid_count, writes, stdout>>
    /\ UNCHANGED fvVars

\* lines 37-46: load the table, create the key column, start pass 1
KA_Load ==
    /\ tool = "KeyAssigner" /\ pc = "start"
    /\ excel.exists
    /\ "Accession" \in read_excel(excel).columns
    /\ df' = EnsureKeyColumn(read_excel(excel))
    /\ accession_to_key' = EmptyMap
    /\ i' = 1
    /\ pc' = "harvest"
    /\ UNCHANGED <<tool, run, excel, excel0, excel1, uuid_count, writes, stdout, result>>
    /\ UNCHANGED fvVars

\* lines 47-53: pass 1 visits row i
KA_Harvest ==
    /\ tool = "KeyAssigner" /\ pc = "harvest"
    /\ i <= Len(df.rows)
    /\ accession_to_key' = HarvestRow(accession_to_key, df.rows[i])
    /\ i' = i + 1
    /\ UNCHANGED <<tool, pc, run, excel, excel0, excel1, df, uuid_count, writes,
                   stdout, result>>
    /\ UNCHANGED fvVars

\* line 47 to line 56: pass 1 is over, pass 2 starts at the first row
KA_HarvestDone ==
    /\ tool = "KeyAssigner" /\ pc = "harvest"
    /\ i > Len(df.rows)
    /\ i' = 1
    /\ pc' = "backfill"
    /\ UNCHANGED <<tool, run, excel, excel0, excel1, df, accession_to_key, uuid_count,
                   writes, stdout, result>>
    /\ UNCHANGED fvVars

\* lines 56-62: pass 2 visits row i
KA_Backfill ==
    /\ tool = "KeyAssigner" /\ pc = "backfill"
    /\ i <= Len(df.rows)
    /\ uuid_count < Len(Digits)
    /\ LET row == df.rows[i]
           map == BackfillMap(accession_to_key, row, uuid_count)
       IN  /\ accession_to_key' = map
           /\ uuid_count' = IF GeneratesUuid(accession_to_key, row)
                            THEN uuid_count + 1 ELSE uuid_count
           /\ df' = [df EXCEPT !.rows[i] = BackfillRow(map, row)]
    /\ i' = i + 1
    /\ UNCHANGED <<tool, pc, run, excel, excel0, excel1, writes, stdout, result>>
    /\ UNCHANGED fvVars

\* lines 64-66: write the table over the spreadsheet, report, return 0
KA_Save ==
    /\ tool = "KeyAssigner" /\ pc = "backfill"
    /\ i > Len(df.rows)
    /\ excel' = to_excel(df)
    /\ writes' = writes + 1
    /\ stdout' = Append(stdout, Line("Updated", <<>>, "", <<>>, 0))
    /\ result' = "return0"
    /\ pc' = "done"
    /\ excel1' = IF run = 1 THEN [file |-> to_excel(df), uuids |-> uuid_count]
                 ELSE excel1
    /\ UNCHANGED <<tool, run, excel0, df, accession_to_key, i, uuid_count>>
    /\ UNCHANGED fvVars

\* the script is run again on the spreadsheet the first run wrote
KA_Rerun ==
    /\ tool = "KeyAssigner" /\ pc = "done"
    /\ run = 1
    /\ run' = 2
    /\ pc' = "start"
    /\ df' = NoTable
    /\ accession_to_key' = EmptyMap
    /\ i' = 0
    /\ stdout' = <<>>
    /\ result' = "none"
    /\ UNCHANGED <<tool, excel, excel0, excel1, uuid_count, writes>>
    /\ UNCHANGED fvVars

KeyAssignerNext ==
    \/ KA_ExcelNotFound
    \/ KA_MissingColumn
    \/ KA_Load
    \/ KA_Harvest
    \/ KA_HarvestDone
    \/ KA_Backfill
    \/ KA_Save
    \/ KA_Rerun

(***************************************************************************)
(* FileValidator, src/check_files.py                                       *)
(***************************************************************************)
columns_to_check == <<"AP_1", "AP_2", "AP_3", "Lateral_1", "Lateral_2", "Lateral_3">>
ImageColumns == {columns_to_check[k] : k \in 1..Len(columns_to_check)}
required_columns == {"Accession"} \cup ImageColumns

\* a path base_dir / dir / name
Path(dir, name) == [dir |-> dir, name |-> name]

\* candidate_paths that tries the name with ".dcm" appended only: a faulty variant
candidate_paths_dcm_only(accession, ap_value) ==
    IF EndsWith(Lower(ap_value), DotDcm)
    THEN <<Path(accession, ap_value)>>
    ELSE <<Path(accession, ap_value \o DotDcm)>>

\* lines 16-20
candidate_paths(accession, ap_value) ==
    IF EndsWith(Lower(ap_value), DotDcm)
    THEN <<Path(accession, ap_value)>>
    ELSE <<Path(accession, ap_value \o DotDcm), Path(accession, ap_value)>>

\* dcm_display_path that returns the value as stored: a faulty variant
dcm_display_path_as_stored(accession, ap_value) == Path(accession, ap_value)

\* lines 23-27
dcm_display_path(accession, ap_value) ==
    IF EndsWith(Lower(ap_value), DotDcm)
    THEN Path(accession, ap_value)
    ELSE Path(accession, ap_value \o DotDcm)

\* line 95: any(path.exists() for path in paths)
AnyExists(paths) == \E k \in 1..Len(paths) : paths[k] \in fs.files

\* a status that reports failure only from the second missing file on: a faulty variant
ExitStatus_from_second(errors) == IF errors > 1 THEN "return1" ELSE "return0"

\* lines 114-118: `if error_count: ... return 1`, else return 0
ExitStatus(errors) == IF errors # 0 THEN "return1" ELSE "return0"

\* the base directory of the run: the accession folders and the files in them
BaseDir ==
    [exists |-> TRUE,
     files |-> {Path(<<"A", "1">>, <<"I", "M", "G", "1", ".", "d", "c", "m">>),
                Path(<<"A", "1">>, <<"I", "M", "G", "2">>),
                Path(<<"A", "1">>, <<"X", ".", "D", "C", "M">>),
                Path(<<"B", "2">>, <<"I", "M", "G", "1">>)}]
NoDir == [exists |-> FALSE, files |-> {}]

ValidatorAccessionCells == {Blank, Text(<<"A", "1">>), Text(<<" ", "B", "2">>)}

\* what the cells of each image column are drawn from
ImageCells(column) ==
    IF column = "AP_1"
    THEN {Blank, Text(<<"I", "M", "G", "1">>), Text(<<"I", "M", "G", "2">>)}
    ELSE IF column = "Lateral_3"
    THEN {Blank, Text(<<"I", "M", "G", "1", ".", "d", "c", "m">>),
          Text(<<" ", "X", ".", "D", "C", "M">>)}
    ELSE {Blank}

ValidatorColumnSets ==
    {required_columns, required_columns \ {"Accession"}, required_columns \ {"Lateral_3"}}

ValidatorRows(cols) ==
    {[c \in cols |-> IF c = "Accession" THEN p[1]
                     ELSE IF c = "AP_1" THEN p[2]
                     ELSE IF c = "Lateral_3" THEN p[3] ELSE Blank] :
        p \in ValidatorAccessionCells \X ImageCells("AP_1") \X ImageCells("Lateral_3")}

FileValidatorInit ==
    /\ tool = "FileValidator"
    /\ pc = "start"
    /\ run = 1
    /\ \/ excel = NoFile
       \/ \E cols \in ValidatorColumnSets, n \in 0..MaxRows :
             \E rows \in [1..n -> ValidatorRows(cols)] :
                excel = [exists |-> TRUE, columns |-> cols, rows |-> rows]
    /\ excel0 = excel
    /\ excel1 = [file |-> NoFile, uuids |-> 0]
    /\ df = NoTable
    /\ accession_to_key = EmptyMap
    /\ i = 0
    /\ uuid_count = 0
    /\ writes = 0
    /\ stdout = <<>>
    /\ result = "none"
    /\ fs \in {BaseDir, NoDir}
    /\ j = 0
    /\ out_row = EmptyMap
    /\ out_rows = <<>>
    /\ csv = [written |-> FALSE, rows |-> <<>>]
    /\ error_count = 0
    /\ checked_count = 0

kaVars == <<run, excel, excel0, excel1, accession_to_key, uuid_count>>

\* lines 56-57: the spreadsheet is not there
FV_ExcelNotFound ==
    /\ tool = "FileValidator" /\ pc = "start"
    /\ ~excel.exists
    /\ pc' = "failed"
    /\ result' = "FileNotFoundError"
    /\ UNCHANGED <<tool, df, i, writes, stdout>>
    /\ UNCHANGED kaVars
    /\ UNCHANGED fvVars

\* lines 58-59: the base directory is not there
FV_BaseDirNotFound ==
    /\ tool = "FileValidator" /\ pc = "start"
    /\ excel.exists
    /\ ~fs.exists
    /\ pc' = "failed"
    /\ result' = "FileNotFoundError"
    /\ UNCHANGED <<tool, df, i, writes, stdout>>
    /\ UNCHANGED kaVars
    /\ UNCHANGED fvVars

\* a column check that requires the image columns only: a faulty variant
MissingColumns_images_only(table) == ImageColumns \ table.columns

\* lines 70-71: required_columns - set(df.columns)
MissingColumns(table) == required_columns \ table.columns

\* lines 61-74: a required column is absent from the loaded table
FV_MissingColumn ==
    /\ tool = "FileValidator" /\ pc = "start"
    /\ excel.exists /\ fs.exists
    /\ MissingColumns(read_excel(excel)) # {}
    /\ df' = read_excel(excel)
    /\ pc' = "failed"
    /\ result' = "KeyError"
    /\ UNCHANGED <<tool, i, writes, stdout>>
    /\ UNCHANGED kaVars
    /\ UNCHANGED fvVars

\* lines 61-79: load the table, reset the counters, start the scan
FV_Load ==
    /\ tool = "FileValidator" /\ pc = "start"
    /\ excel.exists /\ fs.exists
    /\ MissingColumns(read_excel(excel)) = {}
    /\ df' = read_excel(excel)
    /\ error_count' = 0
    /\ checked_count' = 0
    /\ out_rows' = <<>>
    /\ i' = 1
    /\ j' = 0
    /\ pc' = "scan"
    /\ UNCHANGED <<tool, writes, stdout, result, fs, out_row, csv>>
    /\ UNCHANGED kaVars

\* lines 80-82: row i has no accession and is passed over
FV_SkipRow ==
    /\ tool = "FileValidator" /\ pc = "scan"
    /\ j = 0 /\ i <= Len(df.rows)
    /\ normalize_value(RowGet(df.rows[i], "Accession")) = <<>>
    /\ i' = i + 1
    /\ UNCHANGED <<tool, pc, df, writes, stdout, result>>
    /\ UNCHANGED kaVars
    /\ UNCHANGED fvVars

\* lines 80-85: row i has an accession; its output row starts with empty cells
FV_RowStart ==
    /\ tool = "FileValidator" /\ pc = "scan"
    /\ j = 0 /\ i <= Len(df.rows)
    /\ normalize_value(RowGet(df.rows[i], "Accession")) # <<>>
    /\ out_row' = [c \in required_columns |->
                      IF c = "Accession"
                      THEN normalize_value(RowGet(df.rows[i], "Accession")) ELSE <<>>]
    /\ j' = 1
    /\ UNCHANGED <<tool, pc, df, i, writes, stdout, result, fs, out_rows, csv,
                   error_count, checked_count>>
    /\ UNCHANGED kaVars

\* the value of column j of row i, and the paths it stands for
image_value == normalize_value(RowGet(df.rows[i], columns_to_check[j]))
paths == candidate_paths(out_row["Accession"], image_value)
display_name == dcm_display_path(out_row["Accession"], image_value).name
InCell == tool = "FileValidator" /\ pc = "scan" /\ j \in 1..Len(columns_to_check)

\* lines 88-90: the cell is blank
FV_CellBlank ==
    /\ InCell
    /\ image_value = <<>>
    /\ j' = j + 1
    /\ UNCHANGED <<tool, pc, df, i, writes, stdout, result, fs, out_row, out_rows, csv,
                   error_count, checked_count>>
    /\ UNCHANGED kaVars

\* a missing file that is printed but not tallied: a faulty variant
FV_CellMissing_untallied ==
    /\ InCell
    /\ image_value # <<>>
    /\ ~AnyExists(paths)
    /\ checked_count' = checked_count + 1
    /\ stdout' = Append(stdout, Line("ERROR", out_row["Accession"],
                                     columns_to_check[j], display_name, i))
    /\ j' = j + 1
    /\ UNCHANGED <<tool, pc, df, i, writes, result, fs, out_row, out_rows, csv,
                   error_count>>
    /\ UNCHANGED kaVars

\* lines 88-100: no candidate path exists
FV_CellMissing ==
    /\ InCell
    /\ image_value # <<>>
    /\ ~AnyExists(paths)
    /\ checked_count' = checked_count + 1
    /\ stdout' = Append(stdout, Line("ERROR", out_row["Accession"],
                                     columns_to_check[j], display_name, i))
    /\ error_count' = error_count + 1
    /\ j' = j + 1
    /\ UNCHANGED <<tool, pc, df, i, writes, result, fs, out_row, out_rows, csv>>
    /\ UNCHANGED kaVars

\* lines 88-95, 101-102: a candidate path exists
FV_CellFound ==
    /\ InCell
    /\ image_value # <<>>
    /\ AnyExists(paths)
    /\ checked_count' = checked_count + 1
    /\ out_row' = [out_row EXCEPT ![columns_to_check[j]] = display_name]
    /\ j' = j + 1
    /\ UNCHANGED <<tool, pc, df, i, writes, stdout, result, fs, out_rows, csv,
                   error_count>>
    /\ UNCHANGED kaVars

\* line 104: the columns of row i are done; its output row is appended
FV_RowEnd ==
    /\ tool = "FileValidator" /\ pc = "scan"
    /\ j = Len(columns_to_check) + 1
    /\ out_rows' = Append(out_rows, out_row)
    /\ i' = i + 1
    /\ j' = 0
    /\ UNCHANGED <<tool, pc, df, writes, stdout, result, fs, out_row, csv, error_count,
                   checked_count>>
    /\ UNCHANGED kaVars

\* line 111: the non-empty image cells of the output rows
found_count(rows) ==
    Cardinality({<<k, c>> \in (1..Len(rows)) \X ImageColumns : rows[k][c] # <<>>})

\* lines 106-118: write the CSV when there are rows, print the counts, return
FV_Report ==
    /\ tool = "FileValidator" /\ pc = "scan"
    /\ j = 0 /\ i > Len(df.rows)
    /\ csv' = IF out_rows # <<>> THEN [written |-> TRUE, rows |-> out_rows] ELSE csv
    /\ writes' = IF out_rows # <<>> THEN writes + 1 ELSE writes
    /\ stdout' =
          stdout
          \o (IF out_rows # <<>>
              THEN <<Line("Wrote", <<>>, "", <<>>, found_count(out_rows))>> ELSE <<>>)
          \o <<Line("Checked", <<>>, "", <<>>, checked_count)>>
          \o (IF error_count # 0
              THEN <<Line("Found missing", <<>>, "", <<>>, error_count)>>
              ELSE <<Line("All files found", <<>>, "", <<>>, 0)>>)
    /\ result' = ExitStatus(error_count)
    /\ pc' = "done"
    /\ UNCHANGED <<tool, df, i, fs, j, out_row, out_rows, error_count, checked_count>>
    /\ UNCHANGED kaVars

FileValidatorNext ==
    \/ FV_ExcelNotFound
    \/ FV_BaseDirNotFound
    \/ FV_MissingColumn
    \/ FV_Load
    \/ FV_SkipRow
    \/ FV_RowStart
    \/ FV_CellBlank
    \/ FV_CellMissing
    \/ FV_CellFound
    \/ FV_RowEnd
    \/ FV_Report

(***************************************************************************)
(* Specifications: each tool alone, and either tool.                       *)
(***************************************************************************)
KeyAssignerSpec == KeyAssignerInit /\ [][KeyAssignerNext]_vars
FileValidatorSpec == FileValidatorInit /\ [][FileValidatorNext]_vars

Init == KeyAssignerInit \/ FileValidatorInit
Next == KeyAssignerNext \/ FileValidatorNext
Spec == Init /\ [][Next]_vars

(***************************************************************************)
(* Properties of KeyAssigner.                                              *)
(***************************************************************************)
\* the table the first run loaded, and what its rows normalize to
Loaded0 == read_excel(excel0)
Rows0 == 1..Len(excel0.rows)
Accession0(r) == normalize_value(RowGet(Loaded0.rows[r], "Accession"))
Key0(r) == normalize_value(RowGet(Loaded0.rows[r], key_col))
\* the key cell of row r before the first run, with the key column in place
KeyCell0(r) == IF key_col \in excel0.columns THEN excel0.rows[r][key_col] ELSE Blank
\* the rows of row r's accession that held a key before the first run
KeyHolders0(r) == {q \in Rows0 : Accession0(q) = Accession0(r) /\ Key0(q) # <<>>}
Earliest(S) == CHOOSE q \in S : \A m \in S : q <= m
Generated == {uuid4(n) : n \in 1..uuid_count}

FirstRunDone == tool = "KeyAssigner" /\ run = 1 /\ pc = "done"
RerunDone == tool = "KeyAssigner" /\ run = 2 /\ pc = "done"

C2_KeyPreserved_AsStated ==
    FirstRunDone =>
        \A r \in Rows0 :
            Key0(r) # <<>> => normalize_value(ReadCell(excel.rows[r][key_col])) = Key0(r)

\* C2 amended: a record that had a non-empty key keeps it (trimmed, as text)
\* unless an earlier record of the same accession held a different non-empty key;
\* a record with a blank accession keeps its key cell as it was.
C2_KeyPreserved ==
    FirstRunDone =>
        \A r \in Rows0 :
            Key0(r) # <<>> =>
                IF Accession0(r) = <<>>
                THEN excel.rows[r][key_col] = KeyCell0(r)
                ELSE (\A q \in KeyHolders0(r) : q < r => Key0(q) = Key0(r))
                        => excel.rows[r][key_col] = Text(Key0(r))

\* C2 witness: two records share an accession, hold different keys, and the run
\* is over.
C2_Witness ==
    /\ FirstRunDone
    /\ \E q, r \in Rows0 :
          /\ q < r /\ Accession0(q) = Accession0(r) /\ Accession0(r) # <<>>
          /\ Key0(q) # <<>> /\ Key0(r) # <<>> /\ Key0(q) # Key0(r)

\* C3: after a run every record with a non-empty accession has a non-empty key,
\* and records of the same accession hold the same key.
C3_OneKeyPerAccession ==
    (tool = "KeyAssigner" /\ pc = "done") =>
        LET final == read_excel(excel).rows
            acc(r) == normalize_value(RowGet(final[r], "Accession"))
        IN  \A r \in 1..Len(final) :
                acc(r) # <<>> =>
                    /\ normalize_value(RowGet(final[r], key_col)) # <<>>
                    /\ \A q \in 1..Len(final) :
                          acc(q) = acc(r) => final[q][key_col] = final[r][key_col]

\* C3 witness: the first run is over on a sheet where one accession had two
\* records, one with a key and one without.
C3_Witness ==
    /\ FirstRunDone
    /\ \E q, r \in Rows0 :
          /\ q # r /\ Accession0(q) = Accession0(r) /\ Accession0(r) # <<>>
          /\ Key0(q) # <<>> /\ Key0(r) = <<>>

\* C4: a record whose accession is blank (empty cell, whitespace, "nan" in any
\* case) keeps its key cell as it was through both passes and in the file
\* written, and the map holds entries for non-blank accessions of the sheet only.
C4_BlankAccessionSkipped ==
    (tool = "KeyAssigner" /\ run = 1 /\ pc \in {"harvest", "backfill", "done"}) =>
        /\ \A r \in Rows0 :
              Accession0(r) = <<>> =>
                  /\ df.rows[r][key_col] =
                        (IF key_col \in excel0.columns
                         THEN ReadCell(excel0.rows[r][key_col]) ELSE Text(<<>>))
                  /\ pc = "done" => excel.rows[r][key_col] = KeyCell0(r)
        /\ \A a \in DOMAIN accession_to_key :
              /\ a # <<>>
              /\ \E r \in Rows0 : Accession0(r) = a
              /\ \/ accession_to_key[a] \in Generated
                 \/ \E r \in Rows0 : Accession0(r) = a /\ Key0(r) = accession_to_key[a]

\* C4 witness: the run is over on a sheet with a blank-accession record that
\* holds a key and a record with an accession.
C4_Witness ==
    /\ FirstRunDone
    /\ \E q, r \in Rows0 :
          /\ Accession0(r) = <<>> /\ Key0(r) # <<>>
          /\ Accession0(q) # <<>>

\* C9: first seen wins.  An accession with a pre-existing key on some record gets,
\* on all its records, the normalized key of the earliest such record; identifiers
\* are generated only for accessions with no pre-existing key on any record.
C9_FirstSeenWins ==
    FirstRunDone =>
        /\ \A r \in Rows0 :
              Accession0(r) # <<>> =>
                  /\ excel.rows[r][key_col].kind = "text"
                  /\ excel.rows[r][key_col].text = accession_to_key[Accession0(r)]
                  /\ IF KeyHolders0(r) # {}
                     THEN accession_to_key[Accession0(r)] = Key0(Earliest(KeyHolders0(r)))
                     ELSE accession_to_key[Accession0(r)] \in Generated
        /\ uuid_count =
              Cardinality({Accession0(r) : r \in {q \in Rows0 :
                              Accession0(q) # <<>> /\ KeyHolders0(q) = {}}})

\* C9 witness: the run is over on a sheet where a later record of an accession
\* held a key different from the earliest one and now holds the earliest one.
C9_Witness ==
    /\ FirstRunDone
    /\ \E q, r \in Rows0 :
          /\ q < r /\ Accession0(q) = Accession0(r) /\ Accession0(r) # <<>>
          /\ Key0(q) # <<>> /\ Key0(r) # <<>> /\ Key0(q) # Key0(r)
          /\ accession_to_key[Accession0(r)] = Key0(q)
          /\ excel.rows[r][key_col] = Text(Key0(q))

(***************************************************************************)
(* Properties of FileValidator.                                            *)
(***************************************************************************)
InputRows == 1..Len(df.rows)
ColumnIndexes == 1..Len(columns_to_check)
InputAccession(r) == normalize_value(RowGet(df.rows[r], "Accession"))
InputValue(r, k) == normalize_value(RowGet(df.rows[r], columns_to_check[k]))
HasAccession(r) == InputAccession(r) # <<>>
\* the place of row r's output row among the output rows
OutIndex(r) == Cardinality({q \in 1..r : HasAccession(q)})
\* the cells the scan has dealt with so far
Scanned(r, k) == r < i \/ (r = i /\ j >= 1 /\ k < j)
\* the output cell of column k of row r, finished or under construction
OutCell(r, k) ==
    IF r < i THEN out_rows[OutIndex(r)][columns_to_check[k]]
    ELSE out_row[columns_to_check[k]]
\* the ERROR lines printed for column k of row r
ErrorLines(r, k) ==
    {n \in 1..Len(stdout) :
        /\ stdout[n].line = "ERROR"
        /\ stdout[n].row = r
        /\ stdout[n].column = columns_to_check[k]}
\* the image values the sheet specifies for records with an accession
SpecifiedCells ==
    {c \in InputRows \X ColumnIndexes : HasAccession(c[1]) /\ InputValue(c[1], c[2]) # <<>>}
HasExtension(v) == EndsWith(Lower(v), DotDcm)
WithExtension(v) == IF HasExtension(v) THEN v ELSE v \o DotDcm
\* some candidate of value v exists under base_dir/acc
CandidateExists(acc, v) ==
    \/ Path(acc, WithExtension(v)) \in fs.files
    \/ ~HasExtension(v) /\ Path(acc, v) \in fs.files
ValidatorDone == tool = "FileValidator" /\ pc = "done"
Img1 == <<"I", "M", "G", "1">>

\* C5 as stated: every non-empty image cell of the output table is the name of
\* a file that exists under base_dir/accession.
C5_OnlyConfirmedNames_AsStated ==
    ValidatorDone =>
        \A n \in 1..Len(csv.rows) : \A c \in ImageColumns :
            csv.rows[n][c] # <<>> =>
                Path(csv.rows[n]["Accession"], csv.rows[n][c]) \in fs.files

\* C5 amended: a non-empty image cell of the output table is the stored value
\* with ".dcm" appended unless it ends so already, and a file exists under
\* base_dir/accession by that name or, for a value stored without the extension,
\* by the stored name; the cell is empty when no candidate exists or no value
\* was specified.
C5_OnlyConfirmedNames ==
    ValidatorDone =>
        /\ csv.rows = out_rows
        /\ Len(out_rows) = Cardinality({r \in InputRows : HasAccession(r)})
        /\ \A r \in InputRows : \A k \in ColumnIndexes :
              HasAccession(r) =>
                  LET row == csv.rows[OutIndex(r)]
                      cell == row[columns_to_check[k]]
                      v == InputValue(r, k)
                  IN  /\ row["Accession"] = InputAccession(r)
                      /\ cell # <<>> =>
                            /\ v # <<>>
                            /\ cell = WithExtension(v)
                            /\ \/ Path(row["Accession"], cell) \in fs.files
                               \/ ~HasExtension(v) /\ Path(row["Accession"], v) \in fs.files
                      /\ (v = <<>> \/ ~CandidateExists(InputAccession(r), v)) => cell = <<>>

\* C5 witness: the table was written with a cell whose named file is absent
\* while the file of the stored name exists.
C5_Witness ==
    /\ ValidatorDone
    /\ \E n \in 1..Len(csv.rows) : \E c \in ImageColumns :
          /\ csv.rows[n][c] # <<>>
          /\ Path(csv.rows[n]["Accession"], csv.rows[n][c]) \notin fs.files

\* C6: a non-empty image value is found iff one of its candidates exists: the
\* value alone when it ends in ".dcm" (any case), else the value with ".dcm"
\* appended and the value unchanged.  Found, its cell holds the display name;
\* not found, its cell is empty and exactly one ERROR line names it.
C6_ExtensionHandling ==
    ValidatorDone =>
        \A c \in SpecifiedCells :
            LET r == c[1]
                k == c[2]
                v == InputValue(r, k)
                acc == InputAccession(r)
                found == IF HasExtension(v)
                         THEN Path(acc, v) \in fs.files
                         ELSE Path(acc, v \o DotDcm) \in fs.files \/ Path(acc, v) \in fs.files
            IN  /\ OutCell(r, k) = (IF found THEN WithExtension(v) ELSE <<>>)
                /\ Cardinality(ErrorLines(r, k)) = (IF found THEN 0 ELSE 1)
                /\ \A n \in ErrorLines(r, k) :
                      stdout[n].name = WithExtension(v) /\ stdout[n].accession = acc
                /\ (v \in {Img1, Img1 \o DotDcm} /\ Path(acc, Img1 \o DotDcm) \in fs.files)
                      => OutCell(r, k) = Img1 \o DotDcm

\* C6 witness: one sheet holds "IMG1" found as "IMG1.dcm", a value found by its
\* stored name alone, and a value none of whose candidates exists.
C6_Witness ==
    /\ ValidatorDone
    /\ \E c \in SpecifiedCells :
          /\ InputValue(c[1], c[2]) = Img1
          /\ Path(InputAccession(c[1]), Img1) \notin fs.files
          /\ OutCell(c[1], c[2]) = Img1 \o DotDcm
    /\ \E c \in SpecifiedCells :
          /\ ~CandidateExists(InputAccession(c[1]), InputValue(c[1], c[2]))
          /\ ErrorLines(c[1], c[2]) # {}

\* C7: past the preconditions the scan always goes on to the end, whatever is
\* missing (the cursors stay where a step of the scan applies, and the run
\* fails only before the scan), and returns 1 iff some specified image value of
\* a record with an accession has no existing candidate, 0 otherwise.
C7_ExitStatus ==
    tool = "FileValidator" =>
        /\ pc = "scan" =>
              \/ j = 0 /\ i \in 1..Len(df.rows) + 1
              \/ j \in 1..Len(columns_to_check) + 1 /\ i \in InputRows /\ HasAccession(i)
        /\ pc = "failed" => i = 0 /\ stdout = <<>> /\ error_count = 0
        /\ pc = "done" =>
              /\ i = Len(df.rows) + 1
              /\ Len(out_rows) = Cardinality({r \in InputRows : HasAccession(r)})
              /\ result = IF \E c \in SpecifiedCells :
                                ~CandidateExists(InputAccession(c[1]), InputValue(c[1], c[2]))
                          THEN "return1" ELSE "return0"

\* C7 witness: a run ended with status 1 after scanning a record with a missing
\* file followed by a record whose files exist.
C7_Witness ==
    /\ ValidatorDone
    /\ result = "return1"
    /\ \E c, d \in SpecifiedCells :
          /\ c[1] < d[1]
          /\ ~CandidateExists(InputAccession(c[1]), InputValue(c[1], c[2]))
          /\ OutCell(d[1], d[2]) # <<>>

C8_MissingAccessionFailsFirst ==
    (excel0.exists /\ "Accession" \notin excel0.columns
        /\ (tool = "FileValidator" => fs.exists)) =>
        /\ pc \in {"start", "failed"}
        /\ result = (IF pc = "failed" THEN "KeyError" ELSE "none")
        /\ i = 0 /\ j = 0
        /\ excel = excel0
        /\ writes = 0
        /\ ~csv.written
        /\ stdout = <<>>
        /\ accession_to_key = EmptyMap
        /\ out_rows = <<>>
        /\ checked_count = 0 /\ error_count = 0 /\ uuid_count = 0

\* C8 witness: a run on a sheet with records and no Accession column has failed.
C8_Witness ==
    /\ pc = "failed"
    /\ result = "KeyError"
    /\ "Accession" \notin excel0.columns
    /\ Len(excel0.rows) = MaxRows

====
